---- MODULE Spec2Model ----
(***************************************************************************)
(* Model of app.py, "Pergunte aos Seus Documentos": a Streamlit script     *)
(* that loads a document question-answering pipeline once per process,     *)
(* and, when the button is pressed, asks the question of every page of     *)
(* every uploaded document, keeps the answers whose score exceeds 0.01     *)
(* and shows them sorted by score.                                         *)
(*                                                                         *)
(* One behaviour of the model is one server process: a sequence of script  *)
(* runs (one per user interaction).  Scores are kept in thousandths, so    *)
(* 0.01 is 10.  File names are sequences of one-character strings, so that *)
(* lower() and endswith() are computed and not assumed.                    *)
(***************************************************************************)
EXTENDS Integers, Sequences, FiniteSets, TLC

\* ------------------------------------------------------------------ bounds
MaxDocs == 2          \* documents in one upload
MaxPaginas == 2       \* PDF pages in one upload, all documents together
MaxConstrucoes == 2   \* cap of the counter of pipeline constructions

\* --------------------------------------------------------------- constants
THRESHOLD == 10       \* r['score'] > 0.01, in thousandths

\* ------------------------------------------------------------------ inputs
Nomes ==
  { <<"B", ".", "P", "d", "F">>,
    <<"c", ".", "p", "n", "g">>,
    <<"d", ".", "J", "p", "G">>,
    <<"e", ".", "j", "p", "e", "g">>,
    <<"f", ".", "t", "x", "t">> }

Perguntas == {"", "q"}

R(a, s) == [answer |-> a, score |-> s]

\* What the pipeline may return for one image: a list of {answer, score}.
Saidas ==
  { << >>,
    << R("x", 10) >>,
    << R("y", 11), R("x", 11) >>,
    << R("y", 5), R("x", 50) >> }

Listas(n) == UNION { [1..k -> Nomes] : k \in 0..n }

\* The value of st.file_uploader(..., accept_multiple_files=True): a list of
\* uploaded files, or None.
Uploads ==
  { [t |-> "None"] } \cup { [t |-> "list", v |-> l] : l \in Listas(MaxDocs) }

\* ------------------------------------------------------- string functions
\* str.lower(), on the characters the names use.
LowerChar(c) ==
  CASE c = "B" -> "b"
    [] c = "P" -> "p"
    [] c = "D" -> "d"
    [] c = "F" -> "f"
    [] c = "J" -> "j"
    [] c = "G" -> "g"
    [] OTHER -> c

Lower(s) == [k \in 1..Len(s) |-> LowerChar(s[k])]

\* str.endswith(suffix)
EndsWith(s, suf) ==
  /\ Len(suf) <= Len(s)
  /\ SubSeq(s, Len(s) - Len(suf) + 1, Len(s)) = suf

ExtPdf == <<".", "p", "d", "f">>
ExtImagens ==
  { <<".", "p", "n", "g">>, <<".", "j", "p", "g">>, <<".", "j", "p", "e", "g">> }

\* nome_arquivo.lower().endswith(".pdf")
EhPdf(nome) == EndsWith(Lower(nome), ExtPdf)

EhImagemSemElif(nome) == ~EhPdf(nome)
\* elif nome_arquivo.lower().endswith((".png", ".jpg", ".jpeg"))
EhImagem(nome) == \E e \in ExtImagens : EndsWith(Lower(nome), e)

\* ------------------------------------------------------ truthiness tests
PerguntaSempre(p) == TRUE
\* if pergunta_usuario:
PerguntaPreenchida(p) == p /= ""

SemDocumentosSoNone(d) == d.t = "None"
\* if not documentos_carregados:
SemDocumentos(d) == IF d.t = "None" THEN TRUE ELSE d.v = << >>

\* ------------------------------------------------- filter, record, sort
FiltrarInclusivo(resultado) == SelectSeq(resultado, LAMBDA r : r.score >= THRESHOLD)
\* [r for r in resultado if r['score'] > 0.01]
Filtrar(resultado) == SelectSeq(resultado, LAMBDA r : r.score > THRESHOLD)

PaginaPdfIndice(num) == [t |-> "int", v |-> num]
\* "pagina": num_pagina + 1
PaginaPdf(num) == [t |-> "int", v |-> num + 1]

\* "pagina": "N/A"
PaginaImagem == [t |-> "str", v |-> "N/A"]

\* the dict appended to respostas_encontradas
Candidato(nome, pagina, res) ==
  [arquivo |-> nome, pagina |-> pagina, resposta |-> res.answer, score |-> res.score]

Candidatos(nome, pagina, filtradas) ==
  [k \in 1..Len(filtradas) |-> Candidato(nome, pagina, filtradas[k])]

\* Insertion of one element into a list sorted by score descending, after
\* every element whose score is at least its own.
RECURSIVE Inserir(_, _)
Inserir(r, s) ==
  IF s = << >> THEN << r >>
  ELSE IF Head(s).score >= r.score THEN << Head(s) >> \o Inserir(r, Tail(s))
  ELSE << r >> \o s

RECURSIVE InserirAntes(_, _)
InserirAntes(r, s) ==
  IF s = << >> THEN << r >>
  ELSE IF Head(s).score > r.score THEN << Head(s) >> \o InserirAntes(r, Tail(s))
  ELSE << r >> \o s

RECURSIVE OrdenarInstavel(_)
OrdenarInstavel(s) ==
  IF s = << >> THEN << >>
  ELSE InserirAntes(s[Len(s)], OrdenarInstavel(SubSeq(s, 1, Len(s) - 1)))

\* sorted(respostas, key=lambda x: x['score'], reverse=True): a stable sort,
\* elements of equal key keep their order.
RECURSIVE Ordenar(_)
Ordenar(s) ==
  IF s = << >> THEN << >>
  ELSE Inserir(s[Len(s)], Ordenar(SubSeq(s, 1, Len(s) - 1)))

\* ------------------------------------------------------------------- state
VARIABLES
  cache,                  \* st.cache_resource entry: 0 empty, else the instance
  construcoes,            \* pipeline(...) constructions completed in the process
  pc,                     \* position of the script run
  carga,                  \* how carregar_modelo_qa() ended in this run
  modelo_qa,              \* the handle bound at module level, 0 unbound
  documentos_carregados,  \* widget values of this run
  pergunta_usuario,
  botao,
  spinner,                \* st.spinner entered in this run
  i,                      \* loop index over the documents (0-based)
  doc_pdf,                \* page count of the open PDF, -1 none
  num_pagina,             \* loop index over the pages (0-based)
  resultado,              \* last value returned by modelo_qa
  respostas_encontradas,
  respostas,              \* value returned by processar_documentos
  respostas_ordenadas,    \* candidates rendered, in order
  saida,                  \* what follows the subheader
  barra_progresso,        \* "nenhuma", "ativa", "limpa"
  progresso,              \* barra_progresso.progress calls
  avisos,                 \* st.warning calls
  erros,                  \* st.error calls
  lidos,                  \* documents read or opened, by index
  inferencias,            \* calls of modelo_qa: document index, page index
  falhas,                 \* documents in whose processing an exception was raised
  n_paginas,              \* page count found for each opened PDF, by index
  sobreviventes           \* records with score above 0.01 returned, per document

vars ==
  << cache, construcoes, pc, carga, modelo_qa, documentos_carregados,
     pergunta_usuario, botao, spinner, i, doc_pdf, num_pagina, resultado,
     respostas_encontradas, respostas, respostas_ordenadas, saida,
     barra_progresso, progresso, avisos, erros, lidos, inferencias, falhas,
     n_paginas, sobreviventes >>

processo == << cache, construcoes >>
widgets == << documentos_carregados, pergunta_usuario, botao >>
laco == << i, doc_pdf, num_pagina >>
registros == << lidos, inferencias, falhas, n_paginas, sobreviventes >>

Docs == documentos_carregados.v
NumDocs == Len(Docs)
\* documento.name: an uploaded file is represented by its name, its content
\* is found when it is read
NomeAtual == Docs[i + 1]

RECURSIVE Soma(_, _)
Soma(f, S) ==
  IF S = {} THEN 0
  ELSE LET k == CHOOSE k \in S : TRUE IN f[k] + Soma(f, S \ {k})

\* PDF pages opened so far in this run
PaginasAbertas == Soma(n_paginas, DOMAIN n_paginas)

\* how many records of a model output have score above 0.01 (10 thousandths)
AcimaDoLimiar(res) == Cardinality({k \in 1..Len(res) : res[k].score > 10})

Init ==
  /\ cache = 0
  /\ construcoes = 0
  /\ pc = "idle"
  /\ carga = "nenhuma"
  /\ modelo_qa = 0
  /\ documentos_carregados = [t |-> "None"]
  /\ pergunta_usuario = ""
  /\ botao = FALSE
  /\ spinner = FALSE
  /\ i = 0
  /\ doc_pdf = -1
  /\ num_pagina = 0
  /\ resultado = << >>
  /\ respostas_encontradas = << >>
  /\ respostas = << >>
  /\ respostas_ordenadas = << >>
  /\ saida = "nenhuma"
  /\ barra_progresso = "nenhuma"
  /\ progresso = << >>
  /\ avisos = << >>
  /\ erros = << >>
  /\ lidos = << >>
  /\ inferencias = << >>
  /\ falhas = {}
  /\ n_paginas = << >>
  /\ sobreviventes = << >>

\* ----------------------------------------------------------- script start
\* A user interaction starts a run of the script from its first line, with the
\* widget values of that interaction.
Iniciar ==
  /\ pc = "idle"
  /\ \E d \in Uploads, p \in Perguntas, b \in BOOLEAN :
       /\ documentos_carregados' = d
       /\ pergunta_usuario' = p
       /\ botao' = b
       /\ sobreviventes' =
            IF d.t = "None" THEN << >> ELSE [k \in 1..Len(d.v) |-> 0]
  /\ pc' = "carregar"
  /\ UNCHANGED << processo, carga, modelo_qa, spinner, laco, resultado,
                  respostas_encontradas, respostas, respostas_ordenadas, saida,
                  barra_progresso, progresso, avisos, erros, lidos, inferencias,
                  falhas, n_paginas >>

\* The run is over (its last line, or the uncaught exception): nothing of it
\* survives but the cache, the session waits for the next interaction.
FimExecucao ==
  /\ pc \in {"done", "fatal"}
  /\ pc' = "idle"
  /\ carga' = "nenhuma"
  /\ modelo_qa' = 0
  /\ documentos_carregados' = [t |-> "None"]
  /\ pergunta_usuario' = ""
  /\ botao' = FALSE
  /\ spinner' = FALSE
  /\ i' = 0
  /\ doc_pdf' = -1
  /\ num_pagina' = 0
  /\ resultado' = << >>
  /\ respostas_encontradas' = << >>
  /\ respostas' = << >>
  /\ respostas_ordenadas' = << >>
  /\ saida' = "nenhuma"
  /\ barra_progresso' = "nenhuma"
  /\ progresso' = << >>
  /\ avisos' = << >>
  /\ erros' = << >>
  /\ lidos' = << >>
  /\ inferencias' = << >>
  /\ falhas' = {}
  /\ n_paginas' = << >>
  /\ sobreviventes' = << >>
  /\ UNCHANGED processo

\* ------------------------------------------------- carregar_modelo_qa()
CacheHitNunca == FALSE
\* @st.cache_resource: the function body runs only when no value is cached
CacheHit == cache /= 0

\* modelo_qa = carregar_modelo_qa(), value cached by an earlier run
CarregarDoCache ==
  /\ pc = "carregar"
  /\ CacheHit
  /\ modelo_qa' = cache
  /\ carga' = "hit"
  /\ pc' = "botao"
  /\ UNCHANGED << processo, widgets, spinner, laco, resultado,
                  respostas_encontradas, respostas, respostas_ordenadas, saida,
                  barra_progresso, progresso, avisos, erros, registros >>

\* modelo_qa = carregar_modelo_qa(), pipeline(...) returns a new instance,
\* which the decorator caches
CarregarConstruir ==
  /\ pc = "carregar"
  /\ ~CacheHit
  /\ construcoes < MaxConstrucoes
  /\ construcoes' = construcoes + 1
  /\ cache' = construcoes + 1
  /\ modelo_qa' = construcoes + 1
  /\ carga' = "construido"
  /\ pc' = "botao"
  /\ UNCHANGED << widgets, spinner, laco, resultado, respostas_encontradas,
                  respostas, respostas_ordenadas, saida, barra_progresso,
                  progresso, avisos, erros, registros >>

CarregarFalhaEngolida ==
  /\ pc = "carregar"
  /\ ~CacheHit
  /\ carga' = "falhou"
  /\ pc' = "botao"
  /\ UNCHANGED << processo, modelo_qa, widgets, spinner, laco, resultado,
                  respostas_encontradas, respostas, respostas_ordenadas, saida,
                  barra_progresso, progresso, avisos, erros, registros >>

\* modelo_qa = carregar_modelo_qa(), pipeline(...) raises: nothing is cached
\* and nothing at module level catches it, the run ends there
CarregarFalha ==
  /\ pc = "carregar"
  /\ ~CacheHit
  /\ carga' = "falhou"
  /\ pc' = "fatal"
  /\ UNCHANGED << processo, modelo_qa, widgets, spinner, laco, resultado,
                  respostas_encontradas, respostas, respostas_ordenadas, saida,
                  barra_progresso, progresso, avisos, erros, registros >>

\* ------------------------------------------------------------ the button
\* if st.button("Encontrar Respostas"): not pressed in this run
SemClique ==
  /\ pc = "botao"
  /\ ~botao
  /\ pc' = "done"
  /\ UNCHANGED << processo, carga, modelo_qa, widgets, spinner, laco, resultado,
                  respostas_encontradas, respostas, respostas_ordenadas, saida,
                  barra_progresso, progresso, avisos, erros, registros >>

\* else: st.warning("Por favor, digite uma pergunta.")
AvisoSemPergunta ==
  /\ pc = "botao"
  /\ botao
  /\ ~PerguntaPreenchida(pergunta_usuario)
  /\ avisos' = Append(avisos, "sem_pergunta")
  /\ pc' = "done"
  /\ UNCHANGED << processo, carga, modelo_qa, widgets, spinner, laco, resultado,
                  respostas_encontradas, respostas, respostas_ordenadas, saida,
                  barra_progresso, progresso, erros, registros >>

\* processar_documentos with no documents: warning, return []
ProcessarSemDocumentos ==
  /\ pc = "botao"
  /\ botao
  /\ PerguntaPreenchida(pergunta_usuario)
  /\ SemDocumentos(documentos_carregados)
  /\ spinner' = TRUE
  /\ avisos' = Append(avisos, "sem_documentos")
  /\ respostas' = << >>
  /\ pc' = "present"
  /\ UNCHANGED << processo, carga, modelo_qa, widgets, laco, resultado,
                  respostas_encontradas, respostas_ordenadas, saida,
                  barra_progresso, progresso, erros, registros >>

\* processar_documentos with documents: the progress bar is created and the
\* loop starts
ProcessarInicio ==
  /\ pc = "botao"
  /\ botao
  /\ PerguntaPreenchida(pergunta_usuario)
  /\ ~SemDocumentos(documentos_carregados)
  /\ spinner' = TRUE
  /\ barra_progresso' = "ativa"
  /\ i' = 0
  /\ pc' = "doc"
  /\ UNCHANGED << processo, carga, modelo_qa, widgets, doc_pdf, num_pagina,
                  resultado, respostas_encontradas, respostas,
                  respostas_ordenadas, saida, progresso, avisos, erros,
                  registros >>

\* ------------------------------------------- the loop over the documents
\* barra_progresso.progress((i + 1) / len(documentos_carregados), text=...)
AtualizaProgresso ==
  progresso' = Append(progresso, [valor |-> << i + 1, NumDocs >>, texto |-> NomeAtual])

\* the next iteration of "for i, documento in enumerate(...)"
ProximoDocumento ==
  /\ i' = i + 1
  /\ doc_pdf' = -1
  /\ num_pagina' = 0
  /\ pc' = "doc"

ExcecaoInterrompe ==
  /\ erros' = Append(erros, NomeAtual)
  /\ barra_progresso' = "limpa"
  /\ respostas' = respostas_encontradas
  /\ doc_pdf' = -1
  /\ num_pagina' = 0
  /\ i' = i
  /\ pc' = "present"

\* except Exception as e: st.error(f"Erro ao processar o arquivo
\* {documento.name}: {e}"), inside the loop body: the loop goes on
Excecao ==
  /\ erros' = Append(erros, NomeAtual)
  /\ ProximoDocumento
  /\ UNCHANGED << barra_progresso, respostas >>

\* what every step of the loop leaves alone
ForaDoLaco ==
  UNCHANGED << processo, carga, modelo_qa, widgets, spinner, respostas_ordenadas,
               saida, avisos >>

\* PDF branch: documento.read() or fitz.open(...) raises
PdfAbrirFalha ==
  /\ pc = "doc"
  /\ i < NumDocs
  /\ EhPdf(NomeAtual)
  /\ AtualizaProgresso
  /\ lidos' = Append(lidos, i)
  /\ falhas' = falhas \cup {i}
  /\ Excecao
  /\ ForaDoLaco
  /\ UNCHANGED << resultado, respostas_encontradas, inferencias, n_paginas,
                  sobreviventes >>

\* PDF branch: the document opens and has n pages
PdfAbrir ==
  /\ pc = "doc"
  /\ i < NumDocs
  /\ EhPdf(NomeAtual)
  /\ AtualizaProgresso
  /\ lidos' = Append(lidos, i)
  /\ \E n \in 0..(MaxPaginas - PaginasAbertas) :
       /\ n_paginas' = [k \in DOMAIN n_paginas \cup {i + 1} |->
                          IF k = i + 1 THEN n ELSE n_paginas[k]]
       /\ IF n = 0
          THEN ProximoDocumento
          ELSE /\ doc_pdf' = n
               /\ num_pagina' = 0
               /\ pc' = "pagina"
               /\ i' = i
  /\ ForaDoLaco
  /\ UNCHANGED << resultado, respostas_encontradas, respostas, barra_progresso,
                  erros, inferencias, falhas, sobreviventes >>

\* the next iteration of "for num_pagina, pagina in enumerate(doc_pdf)"
ProximaPagina ==
  IF num_pagina + 1 = doc_pdf
  THEN ProximoDocumento
  ELSE /\ num_pagina' = num_pagina + 1
       /\ UNCHANGED << i, doc_pdf, pc >>

\* a page: get_pixmap, tobytes or Image.open raises
PaginaRasterFalha ==
  /\ pc = "pagina"
  /\ falhas' = falhas \cup {i}
  /\ Excecao
  /\ ForaDoLaco
  /\ UNCHANGED << resultado, respostas_encontradas, progresso, lidos,
                  inferencias, n_paginas, sobreviventes >>

\* a page: modelo_qa(image=imagem, question=pergunta) raises
PaginaModeloFalha ==
  /\ pc = "pagina"
  /\ inferencias' = Append(inferencias, [doc |-> i, pagina |-> num_pagina])
  /\ falhas' = falhas \cup {i}
  /\ Excecao
  /\ ForaDoLaco
  /\ UNCHANGED << resultado, respostas_encontradas, progresso, lidos,
                  n_paginas, sobreviventes >>

\* a page: the model answers, the answers above the threshold are appended
PaginaOk ==
  /\ pc = "pagina"
  /\ inferencias' = Append(inferencias, [doc |-> i, pagina |-> num_pagina])
  /\ \E res \in Saidas :
       /\ resultado' = res
       /\ respostas_encontradas' =
            respostas_encontradas \o
              Candidatos(NomeAtual, PaginaPdf(num_pagina), Filtrar(res))
       /\ sobreviventes' =
            [sobreviventes EXCEPT ![i + 1] = @ + AcimaDoLimiar(res)]
  /\ ProximaPagina
  /\ ForaDoLaco
  /\ UNCHANGED << respostas, barra_progresso, progresso, erros, lidos, falhas,
                  n_paginas >>

\* image branch: Image.open(documento) raises
ImagemAbrirFalha ==
  /\ pc = "doc"
  /\ i < NumDocs
  /\ ~EhPdf(NomeAtual)
  /\ EhImagem(NomeAtual)
  /\ AtualizaProgresso
  /\ lidos' = Append(lidos, i)
  /\ falhas' = falhas \cup {i}
  /\ Excecao
  /\ ForaDoLaco
  /\ UNCHANGED << resultado, respostas_encontradas, inferencias, n_paginas,
                  sobreviventes >>

\* image branch: modelo_qa(image=imagem, question=pergunta) raises
ImagemModeloFalha ==
  /\ pc = "doc"
  /\ i < NumDocs
  /\ ~EhPdf(NomeAtual)
  /\ EhImagem(NomeAtual)
  /\ AtualizaProgresso
  /\ lidos' = Append(lidos, i)
  /\ inferencias' = Append(inferencias, [doc |-> i, pagina |-> -1])
  /\ falhas' = falhas \cup {i}
  /\ Excecao
  /\ ForaDoLaco
  /\ UNCHANGED << resultado, respostas_encontradas, n_paginas, sobreviventes >>

\* image branch: the model answers
ImagemOk ==
  /\ pc = "doc"
  /\ i < NumDocs
  /\ ~EhPdf(NomeAtual)
  /\ EhImagem(NomeAtual)
  /\ AtualizaProgresso
  /\ lidos' = Append(lidos, i)
  /\ inferencias' = Append(inferencias, [doc |-> i, pagina |-> -1])
  /\ \E res \in Saidas :
       /\ resultado' = res
       /\ respostas_encontradas' =
            respostas_encontradas \o
              Candidatos(NomeAtual, PaginaImagem, Filtrar(res))
       /\ sobreviventes' =
            [sobreviventes EXCEPT ![i + 1] = @ + AcimaDoLimiar(res)]
  /\ ProximoDocumento
  /\ ForaDoLaco
  /\ UNCHANGED << respostas, barra_progresso, erros, falhas, n_paginas >>

\* neither branch: the body of the try does nothing more
IgnorarDocumento ==
  /\ pc = "doc"
  /\ i < NumDocs
  /\ ~EhPdf(NomeAtual)
  /\ ~EhImagem(NomeAtual)
  /\ AtualizaProgresso
  /\ ProximoDocumento
  /\ ForaDoLaco
  /\ UNCHANGED << resultado, respostas_encontradas, respostas, barra_progresso,
                  erros, registros >>

\* after the loop: barra_progresso.empty(); return respostas_encontradas
FimProcessamento ==
  /\ pc = "doc"
  /\ i = NumDocs
  /\ barra_progresso' = "limpa"
  /\ respostas' = respostas_encontradas
  /\ resultado' = << >>
  /\ pc' = "present"
  /\ UNCHANGED << processo, carga, modelo_qa, widgets, spinner, laco,
                  respostas_encontradas, respostas_ordenadas, saida, progresso,
                  avisos, erros, registros >>

\* --------------------------------------------------------- presentation
\* st.subheader; if respostas: sorted(...) and one block per candidate
ApresentarResultados ==
  /\ pc = "present"
  /\ respostas /= << >>
  /\ respostas_ordenadas' = Ordenar(respostas)
  /\ saida' = "resultados"
  /\ pc' = "done"
  /\ UNCHANGED << processo, carga, modelo_qa, widgets, spinner, laco, resultado,
                  respostas_encontradas, respostas, barra_progresso, progresso,
                  avisos, erros, registros >>

\* st.subheader; else: st.info("Nenhuma resposta foi encontrada ...")
ApresentarVazio ==
  /\ pc = "present"
  /\ respostas = << >>
  /\ saida' = "info"
  /\ pc' = "done"
  /\ UNCHANGED << processo, carga, modelo_qa, widgets, spinner, laco, resultado,
                  respostas_encontradas, respostas, respostas_ordenadas,
                  barra_progresso, progresso, avisos, erros, registros >>

Next ==
  \/ Iniciar
  \/ CarregarDoCache
  \/ CarregarConstruir
  \/ CarregarFalha
  \/ SemClique
  \/ AvisoSemPergunta
  \/ ProcessarSemDocumentos
  \/ ProcessarInicio
  \/ PdfAbrirFalha
  \/ PdfAbrir
  \/ PaginaRasterFalha
  \/ PaginaModeloFalha
  \/ PaginaOk
  \/ ImagemAbrirFalha
  \/ ImagemModeloFalha
  \/ ImagemOk
  \/ IgnorarDocumento
  \/ FimProcessamento
  \/ ApresentarResultados
  \/ ApresentarVazio
  \/ FimExecucao

Spec == Init /\ [][Next]_vars

\* ------------------------------------------------------------ properties
\* Words of the claims, stated apart from the operators of the model above.
Limiar == 10                     \* 0.01 in thousandths
NaoAplicavel == [t |-> "str", v |-> "N/A"]
Numero(n) == [t |-> "int", v |-> n]
TemExtensao(nome, ext) == EndsWith(Lower(nome), ext)
NomePdf(nome) == TemExtensao(nome, <<".", "p", "d", "f">>)
NomeImagem(nome) ==
  \/ TemExtensao(nome, <<".", "p", "n", "g">>)
  \/ TemExtensao(nome, <<".", "j", "p", "g">>)
  \/ TemExtensao(nome, <<".", "j", "p", "e", "g">>)
TemLista == documentos_carregados.t = "list"
Vazio ==
  IF documentos_carregados.t = "None" THEN TRUE ELSE documentos_carregados.v = << >>
\* the batch was processed to its end, processar_documentos has returned
Processado == pc \in {"present", "done"} /\ barra_progresso = "limpa"
Quantos(s, P(_)) == Cardinality({k \in DOMAIN s : P(s[k])})
InferenciasDe(d) == SelectSeq(inferencias, LAMBDA c : c.doc = d)
NomesDistintos == \A j, k \in 1..NumDocs : j /= k => Docs[j] /= Docs[k]

\* C1: every answer candidate collected, returned or presented has a score
\* strictly above 0.01; a model record with score 0.01 or less is never a
\* candidate, on the PDF branch and on the image branch.
C1_ScoreAcimaDoLimiar ==
  /\ \A k \in DOMAIN respostas_encontradas : respostas_encontradas[k].score > Limiar
  /\ \A k \in DOMAIN respostas : respostas[k].score > Limiar
  /\ \A k \in DOMAIN respostas_ordenadas : respostas_ordenadas[k].score > Limiar
  /\ \A d \in DOMAIN sobreviventes :
       Quantos(respostas_encontradas, LAMBDA r : r.arquivo = Docs[d]) <=
         Soma(sobreviventes, {e \in DOMAIN sobreviventes : Docs[e] = Docs[d]})

\* a PDF page gave a candidate, then the image's only record, of score exactly
\* 0.01, was dropped
C1_Witness ==
  /\ pc = "doc"
  /\ i = 2
  /\ NomePdf(Docs[1])
  /\ NomeImagem(Docs[2])
  /\ resultado = << R("x", 10) >>
  /\ respostas_encontradas /= << >>
  /\ sobreviventes[2] = 0

\* C2: what is presented is the returned candidates sorted by score
\* descending, candidates of equal score in their order of discovery, none
\* dropped and none merged.
C2_OrdenacaoEstavel ==
  saida = "resultados" =>
    /\ Len(respostas_ordenadas) = Len(respostas)
    /\ \A k \in 1..(Len(respostas_ordenadas) - 1) :
         respostas_ordenadas[k].score >= respostas_ordenadas[k + 1].score
    /\ \A k \in DOMAIN respostas :
         LET s == respostas[k].score IN
           SelectSeq(respostas_ordenadas, LAMBDA r : r.score = s) =
             SelectSeq(respostas, LAMBDA r : r.score = s)

\* two different candidates of equal score, a higher one found after them,
\* and the same candidate found twice
C2_Witness ==
  /\ saida = "resultados"
  /\ Len(respostas) >= 3
  /\ respostas_ordenadas /= respostas
  /\ \E j, k \in DOMAIN respostas :
       /\ j < k
       /\ respostas[j].score = respostas[k].score
       /\ respostas[j] /= respostas[k]
       /\ \E m \in DOMAIN respostas : m > k /\ respostas[m].score > respostas[k].score

\* C3: a failure in one document does not end the batch: one error with that
\* document's name per failing document, every document of the list is
\* visited in order, and the candidates of the others are in the result.
C3_FalhaNaoAborta ==
  Processado =>
    /\ Len(progresso) = NumDocs
    /\ \A k \in 1..NumDocs :
         progresso[k] = [valor |-> << k, NumDocs >>, texto |-> Docs[k]]
    /\ Len(erros) = Cardinality(falhas)
    /\ \A nome \in Nomes :
         Quantos(erros, LAMBDA e : e = nome) =
           Cardinality({d \in falhas : Docs[d + 1] = nome})
    /\ Len(respostas) = Soma(sobreviventes, DOMAIN sobreviventes)
    /\ \A d \in 1..NumDocs :
         (d - 1) \notin falhas =>
           /\ NomePdf(Docs[d]) => Len(InferenciasDe(d - 1)) = n_paginas[d]
           /\ NomeImagem(Docs[d]) => Len(InferenciasDe(d - 1)) = 1
           /\ Quantos(respostas, LAMBDA r : r.arquivo = Docs[d]) >= sobreviventes[d]

\* the first document failed, the second was processed and gave candidates
C3_Witness ==
  /\ pc = "done"
  /\ TemLista
  /\ NumDocs = 2
  /\ falhas = {0}
  /\ erros = << Docs[1] >>
  /\ sobreviventes[2] > 0
  /\ respostas /= << >>

\* C4 (as claimed): no candidate of the result carries the name of a document
\* for which an error was reported.
C4_FalhaSemCandidatos ==
  (pc = "done" /\ TemLista /\ NomesDistintos) =>
    \A e \in DOMAIN erros : \A k \in DOMAIN respostas :
      respostas[k].arquivo /= erros[e]

\* C5 (as claimed): with the button pressed and an empty question, a warning
\* is signalled and in that run no document is read, carregar_modelo_qa is not
\* called and the model is not invoked.
C5_SemPerguntaSemChamadas ==
  (pc = "done" /\ botao /\ pergunta_usuario = "") =>
    /\ avisos = << "sem_pergunta" >>
    /\ lidos = << >>
    /\ inferencias = << >>
    /\ carga = "nenhuma"

\* C5 (amended): with the button pressed and an empty question, the run calls
\* carregar_modelo_qa once, before the question is looked at; no document is
\* read and the model is not invoked; the warning is signalled when that call
\* returns, and nothing is signalled when it raises.
C5_SemPerguntaSemInferencia ==
  (botao /\ pergunta_usuario = "") =>
    /\ lidos = << >>
    /\ inferencias = << >>
    /\ progresso = << >>
    /\ barra_progresso = "nenhuma"
    /\ pc \in {"done", "fatal"} => carga /= "nenhuma"
    /\ pc = "done" =>
         /\ carga \in {"hit", "construido"}
         /\ avisos = << "sem_pergunta" >>
         /\ saida = "nenhuma"
    /\ pc = "fatal" => avisos = << >>

\* documents were uploaded, the question is empty, the model was loaded in
\* this very run and the warning is out
C5_Witness ==
  /\ pc = "done"
  /\ botao
  /\ pergunta_usuario = ""
  /\ TemLista
  /\ NumDocs = 2
  /\ carga = "construido"
  /\ avisos = << "sem_pergunta" >>

\* C6: with a question and no document (None or an empty list),
\* processar_documentos returns the empty list and warns; the model is not
\* invoked and no progress bar is created.
C6_SemDocumentos ==
  (botao /\ pergunta_usuario /= "" /\ Vazio) =>
    /\ inferencias = << >>
    /\ lidos = << >>
    /\ barra_progresso = "nenhuma"
    /\ progresso = << >>
    /\ pc \in {"present", "done"} =>
         /\ respostas = << >>
         /\ avisos = << "sem_documentos" >>

\* the empty list: returned from processar_documentos with the warning
C6_Witness ==
  /\ pc = "present"
  /\ botao
  /\ pergunta_usuario = "q"
  /\ TemLista
  /\ documentos_carregados.v = << >>
  /\ avisos = << "sem_documentos" >>
  /\ respostas = << >>

\* C7: in one process the pipeline is constructed at most once, and every run
\* after the successful load is handed that same instance.
C7_CargaUnica ==
  /\ construcoes <= 1
  /\ cache \in {0, 1}
  /\ cache = construcoes
  /\ modelo_qa /= 0 => (modelo_qa = 1 /\ cache = 1)
  /\ carga = "hit" => (modelo_qa = 1 /\ construcoes = 1)

\* a later run got the cached instance
C7_Witness ==
  /\ pc = "botao"
  /\ carga = "hit"
  /\ modelo_qa = 1
  /\ construcoes = 1

\* Every candidate names a document of the list and a page that document has;
\* the model calls made for a document are its pages in order, all of them
\* once the document is done without a failure, and one call for an image.
C8_Estado ==
  /\ \A k \in DOMAIN respostas_encontradas :
       LET r == respostas_encontradas[k] IN
         \E d \in 1..NumDocs :
           /\ Docs[d] = r.arquivo
           /\ \/ /\ NomePdf(Docs[d])
                 /\ d \in DOMAIN n_paginas
                 /\ r.pagina.t = "int"
                 /\ r.pagina.v \in 1..n_paginas[d]
              \/ /\ ~NomePdf(Docs[d])
                 /\ NomeImagem(Docs[d])
                 /\ r.pagina = NaoAplicavel
  /\ \A d \in DOMAIN sobreviventes :
       LET feitas == InferenciasDe(d - 1) IN
         /\ NomePdf(Docs[d]) =>
              /\ feitas = [k \in 1..Len(feitas) |-> [doc |-> d - 1, pagina |-> k - 1]]
              /\ d \in DOMAIN n_paginas => Len(feitas) <= n_paginas[d]
              /\ (Processado /\ (d - 1) \notin falhas) =>
                   Len(feitas) = n_paginas[d]
         /\ (~NomePdf(Docs[d]) /\ NomeImagem(Docs[d])) =>
              /\ Len(feitas) <= 1
              /\ \A k \in DOMAIN feitas : feitas[k].pagina = -1
              /\ (Processado /\ (d - 1) \notin falhas) => Len(feitas) = 1

\* The candidates a step appends carry the name of the current document and
\* the number of the current page, counted from 1, or "N/A" for an image.
C8_Passo ==
  \A k \in (Len(respostas_encontradas) + 1)..Len(respostas_encontradas') :
    /\ respostas_encontradas'[k].arquivo = Docs[i + 1]
    /\ respostas_encontradas'[k].pagina =
         IF pc = "pagina" THEN Numero(num_pagina + 1) ELSE NaoAplicavel

C9_FalhaDeCargaFatal ==
  /\ carga = "falhou" => pc = "fatal"
  /\ pc = "fatal" =>
       /\ carga = "falhou"
       /\ modelo_qa = 0
       /\ cache = 0
       /\ lidos = << >>
       /\ inferencias = << >>
       /\ progresso = << >>
       /\ erros = << >>
       /\ avisos = << >>
       /\ ~spinner
       /\ saida = "nenhuma"
       /\ respostas_ordenadas = << >>

\* the load failed in a run with the button pressed, a question and documents
C9_Witness ==
  /\ pc = "fatal"
  /\ botao
  /\ pergunta_usuario = "q"
  /\ TemLista
  /\ NumDocs = 2

\* C10: a document whose name has neither the PDF extension nor an image
\* extension is passed over: no read, no model call, no candidate, no error,
\* and the loop goes to the next document.
C10_ExtensaoDesconhecida ==
  [][ (pc = "doc" /\ i < NumDocs /\ ~NomePdf(Docs[i + 1]) /\ ~NomeImagem(Docs[i + 1])) =>
        /\ inferencias' = inferencias
        /\ lidos' = lidos
        /\ respostas_encontradas' = respostas_encontradas
        /\ erros' = erros
        /\ falhas' = falhas
        /\ sobreviventes' = sobreviventes
        /\ i' = i + 1
        /\ pc' = "doc" ]_vars

\* a document gave candidates, the next one, of unknown extension, was passed
\* over and left them as they were
C10_Witness ==
  /\ pc = "doc"
  /\ i = 2
  /\ NumDocs = 2
  /\ ~NomePdf(Docs[2])
  /\ ~NomeImagem(Docs[2])
  /\ Len(progresso) = 2
  /\ Len(inferencias) = 1
  /\ respostas_encontradas /= << >>
  /\ erros = << >>

====
